---- MODULE Spec2Model ----
(***************************************************************************)
(* A model of the three LP formulators of investment_Planning              *)
(* (BankLoanOptimizer, ProductionInventoryOptimizer, OilRefiningOptimizer) *)
(* and of their solve()/extraction step.                                   *)
(*                                                                         *)
(* Numbers.  The Python code works in floats; the model works in exact     *)
(* integers.  Rates and ratios (interest rates, bad-debt ratios, the       *)
(* literals 0.4, 0.6, 0.5 and 0.04) are held in thousandths, so a         *)
(* coefficient c of a bank ratio constraint is held as 1000*c and a bank   *)
(* objective coefficient (a product of two rates) as 1000000*c; the rows   *)
(* lpSum(variables) have coefficient 1 as in the source.  Profit margins of*)
(* the refinery are held in tenths of a dollar.  Everything else is an     *)
(* integer in the source already.                                          *)
(*                                                                         *)
(* One optimizer object lives in a behaviour: `self` holds its attributes, *)
(* `last` the name of the last method called on it, `raised` the exception *)
(* that call ended with ("" when it returned), `returned` what it returned *)
(* and `engine` what the engine did inside that call ("" when the call did *)
(* not reach model.solve(), "answered" or "raised").  `given` holds the    *)
(* arguments the constructor was called with: <<>> for an omitted argument *)
(* and <<v>> for the argument v.                                           *)
(* A behaviour of SpecViolations is one call of the utility function      *)
(* calculate_constraint_violations instead: `given` holds its arguments,   *)
(* `self` is None, and `last`, `raised` and `returned` describe the call.  *)
(***************************************************************************)
EXTENDS Integers, Sequences, FiniteSets, TLC

VARIABLES given, self, last, raised, returned, engine

vars == <<given, self, last, raised, returned, engine>>

(***************************************************************************)
(* Bounds of the model (not program constants).                            *)
(***************************************************************************)
\* Candidate points handed to constraints and to the engine are the vectors
\* of naturals whose entries sum to at most MaxTotal.
MaxTotal == 6

(***************************************************************************)
(* Python values.                                                          *)
(***************************************************************************)
NoneVal == [type |-> "None"]

\* Truthiness of a list or dict, as `x or default` tests it.
Falsy(v) == DOMAIN v = {}

\* An optional argument is <<>> when omitted (None) and <<v>> when given.
\* `arg or default`
OrDefault(arg, default) ==
    IF arg = <<>> THEN default
    ELSE IF Falsy(arg[1]) THEN default ELSE arg[1]

RECURSIVE SumSeq(_)
SumSeq(s) == IF s = <<>> THEN 0 ELSE Head(s) + SumSeq(Tail(s))

\* sum(c[i] * x[i]) over the variables of a model
Dot(c, x) == SumSeq([i \in 1..Len(c) |-> c[i] * x[i]])

\* The zero coefficient vector over n variables, and a vector with the
\* entries of `pairs` (index :> coefficient) set.
Coefs(n, pairs) == [i \in 1..n |-> IF i \in DOMAIN pairs THEN pairs[i] ELSE 0]

RECURSIVE SeqsSum(_, _)
SeqsSum(n, b) ==
    IF n = 0 THEN {<<>>}
    ELSE UNION {{<<v>> \o s : s \in SeqsSum(n - 1, b - v)} : v \in 0..b}

\* Points whose entries may also lie below zero, for the properties that
\* depend on the variables' lower bounds: entries in -MaxBelow..MaxAbove.
MaxBelow == 1
MaxAbove == 1
SignedPoints(n) ==
    {[i \in 1..n |-> f[i]] : f \in [1..n -> (0 - MaxBelow)..MaxAbove]}

\* All candidate points over n variables, n in 0..MaxVars.
MaxVars == 6
Points == [n \in 0..MaxVars |-> SeqsSum(n, MaxTotal)]

(***************************************************************************)
(* The LP model object (pulp.LpProblem as the formulators use it).         *)
(***************************************************************************)
LpMaximize == "Maximize"
LpMinimize == "Minimize"

\* LpProblem(name, sense): no objective, no constraints, status Not Solved,
\* no variable values.
LpProblem(name, sense) ==
    [type |-> "LpProblem", name |-> name, sense |-> sense,
     objective |-> <<>>, objective_name |-> "",
     constraints |-> <<>>, status |-> "Not Solved", values |-> <<>>]

\* LpVariable with a lower bound below zero.
LpVariableBelowZero(name) == [name |-> name, lowBound |-> -1]

\* LpVariable(name, lowBound=0)
LpVariable(name) == [name |-> name, lowBound |-> 0]

\* model += expr, name          (sets the objective)
SetObjective(m, coefs, name) ==
    [m EXCEPT !.objective = coefs, !.objective_name = name]

\* model += (expr <sense> rhs, name)
AddConstraint(m, coefs, sense, rhs, name) ==
    [m EXCEPT !.constraints =
        Append(@, [name |-> name, coefs |-> coefs, sense |-> sense, rhs |-> rhs])]

\* Whether the point x satisfies the constraint c exactly.
Holds(c, x) ==
    CASE c.sense = "<=" -> Dot(c.coefs, x) <= c.rhs
      [] c.sense = ">=" -> Dot(c.coefs, x) >= c.rhs
      [] c.sense = "==" -> Dot(c.coefs, x) = c.rhs

\* The constraint of model m with the given label (labels are unique in
\* every model the formulators build).
ConstraintNamed(m, name) ==
    LET i == CHOOSE j \in 1..Len(m.constraints) : m.constraints[j].name = name
    IN  m.constraints[i]

HasConstraint(m, name) ==
    \E j \in 1..Len(m.constraints) : m.constraints[j].name = name

(***************************************************************************)
(* BankLoanOptimizer (src/src/models/bank_loan.py)                         *)
(***************************************************************************)
DefaultTotalFunds == 12000000
DefaultInterestRates == <<140, 130, 120, 125, 100>>
DefaultBadDebtRatios == <<100, 70, 30, 50, 20>>
DefaultLoanTypes == <<"Personal", "Car", "Home", "Farm", "Commercial">>

\* BankLoanOptimizer.__init__; total_funds is <<>> when the argument is
\* omitted, and is stored as given otherwise.
BankLoanOptimizer(total_funds, interest_rates, bad_debt_ratios, loan_types) ==
    [cls |-> "BankLoanOptimizer",
     total_funds |-> IF total_funds = <<>> THEN DefaultTotalFunds ELSE total_funds[1],
     interest_rates |-> OrDefault(interest_rates, DefaultInterestRates),
     bad_debt_ratios |-> OrDefault(bad_debt_ratios, DefaultBadDebtRatios),
     loan_types |-> OrDefault(loan_types, DefaultLoanTypes),
     model |-> NoneVal, variables |-> NoneVal, solution |-> NoneVal]

\* Whether _calculate_net_returns ends with IndexError: it indexes both
\* rate lists by range(len(loan_types)).
NetReturnsRaises(o) ==
    \E i \in 1..Len(o.loan_types) :
        i > Len(o.bad_debt_ratios) \/ i > Len(o.interest_rates)

\* NetReturn with the bad-debt loss left out of the coefficient.
NetReturnNoLoss(interest_rate, bad_debt_ratio) ==
    interest_rate * (1000 - bad_debt_ratio)

\* One net return coefficient (in millionths) as lines 63-65 compute it.
NetReturn(interest_rate, bad_debt_ratio) ==
    LET good_loan_fraction == 1000 - bad_debt_ratio
        interest_earned == interest_rate * good_loan_fraction
    IN  interest_earned - 1000 * bad_debt_ratio

calculate_net_returns(o) ==
    [i \in 1..Len(o.loan_types) |->
        NetReturn(o.interest_rates[i], o.bad_debt_ratios[i])]

\* FarmCommercialCoefs with the 0.4 share not moved to the left-hand side:
\* 0.4*(x0+x1+x2) - (x3+x4).
FarmCommercialCoefsUnmoved(n) ==
    Coefs(n, 1 :> 400 @@ 2 :> 400 @@ 3 :> 400 @@ 4 :> -1000 @@ 5 :> -1000)

\* Constraint 3 of build_model: coefficients on variables[0..4].
FarmCommercialCoefs(n) ==
    Coefs(n, 1 :> 400 @@ 2 :> 400 @@ 3 :> 400 @@ 4 :> -600 @@ 5 :> -600)

\* Constraint 4 of build_model: coefficients on variables[0..2].
HomeLoanCoefs(n) == Coefs(n, 1 :> 500 @@ 2 :> 500 @@ 3 :> -500)

\* The bad debt limit of constraint 5, in thousandths.
BadDebtLimit == 40

\* BadDebtCoefs with the limit subtracted the wrong way round.
BadDebtCoefsFlipped(o) ==
    [i \in 1..Len(o.loan_types) |-> BadDebtLimit - o.bad_debt_ratios[i]]

\* Constraint 5 of build_model.
BadDebtCoefs(o) ==
    [i \in 1..Len(o.loan_types) |-> o.bad_debt_ratios[i] - BadDebtLimit]

\* The objective as build_model sets it.
BankObjective(o) == calculate_net_returns(o)

\* build_model, statement by statement.  The result is the object after the
\* call and the exception the call ended with ("" when it returned): an
\* IndexError leaves self.model and self.variables as built so far.
BankBuild(o) ==
    LET n  == Len(o.loan_types)
        m0 == LpProblem("Bank_Loan_Portfolio_Optimization", LpMaximize)
        vs == [i \in 1..n |-> LpVariable("x_" \o o.loan_types[i])]
        o0 == [o EXCEPT !.model = m0, !.variables = vs]
    IN  IF NetReturnsRaises(o)
        THEN [self |-> o0, raised |-> "IndexError"]
        ELSE
        LET m1 == SetObjective(m0, BankObjective(o), "Total_Net_Return")
            m2 == AddConstraint(m1, [i \in 1..n |-> 1], "<=",
                                o.total_funds, "Total_Funds_Constraint")
            m3 == AddConstraint(m2, [i \in 1..n |-> 1], ">=", 0,
                                "Minimum_Allocation")
        IN  IF n < 5
            THEN [self |-> [o0 EXCEPT !.model = m3], raised |-> "IndexError"]
            ELSE
            LET m4 == AddConstraint(m3, FarmCommercialCoefs(n), "<=", 0,
                                    "Farm_Commercial_Minimum")
                m5 == AddConstraint(m4, HomeLoanCoefs(n), "<=", 0,
                                    "Home_Loan_Minimum")
                m6 == AddConstraint(m5, BadDebtCoefs(o), "<=", 0,
                                    "Bad_Debt_Limit")
            IN  [self |-> [o0 EXCEPT !.model = m6], raised |-> ""]

(***************************************************************************)
(* ProductionInventoryOptimizer (src/src/models/production_inventory.py)   *)
(***************************************************************************)
DefaultProductionCosts == <<50, 45, 55, 48, 52, 50>>
DefaultStorageCost == 8
DefaultDemands == <<100, 250, 190, 140, 220, 110>>

\* ProductionInventoryOptimizer taking a demand list that sums to zero for a
\* missing one.
ProductionInventoryOptimizerZeroAsMissing(production_costs, storage_cost, demands) ==
    LET ds == IF demands = <<>> THEN DefaultDemands
              ELSE IF SumSeq(demands[1]) = 0 THEN DefaultDemands ELSE demands[1]
    IN  [cls |-> "ProductionInventoryOptimizer",
         production_costs |-> OrDefault(production_costs, DefaultProductionCosts),
         storage_cost |-> IF storage_cost = <<>> THEN DefaultStorageCost
                          ELSE storage_cost[1],
         demands |-> ds,
         num_periods |-> Len(ds),
         model |-> NoneVal, production_vars |-> NoneVal,
         inventory_vars |-> NoneVal, solution |-> NoneVal]

\* ProductionInventoryOptimizer.__init__; storage_cost is <<>> when omitted.
ProductionInventoryOptimizer(production_costs, storage_cost, demands) ==
    LET ds == OrDefault(demands, DefaultDemands)
    IN  [cls |-> "ProductionInventoryOptimizer",
         production_costs |-> OrDefault(production_costs, DefaultProductionCosts),
         storage_cost |-> IF storage_cost = <<>> THEN DefaultStorageCost
                          ELSE storage_cost[1],
         demands |-> ds,
         num_periods |-> Len(ds),
         model |-> NoneVal, production_vars |-> NoneVal,
         inventory_vars |-> NoneVal, solution |-> NoneVal]

\* Positions of the decision variables in a point: production_vars[t-1] is
\* entry t and inventory_vars[t-1] is entry num_periods + t (t = 1..n).
ProduceIx(n, t) == t
InventoryIx(n, t) == n + t

\* ProdObjective with the storage cost left out.
ProdObjectiveNoStorage(o) ==
    LET n == o.num_periods
    IN  [j \in 1..(2 * n) |-> IF j <= n THEN o.production_costs[j] ELSE 0]

\* ProdObjective charging storage twice.
ProdObjectiveDoubleStorage(o) ==
    LET n == o.num_periods
    IN  [j \in 1..(2 * n) |->
            IF j <= n THEN o.production_costs[j] ELSE 2 * o.storage_cost]

\* ProdObjective with the production cost left out.
ProdObjectiveNoProductionCost(o) ==
    LET n == o.num_periods
    IN  [j \in 1..(2 * n) |-> IF j <= n THEN 0 ELSE o.storage_cost]

\* total_production_cost + total_storage_cost
ProdObjective(o) ==
    LET n == o.num_periods
    IN  [j \in 1..(2 * n) |->
            IF j <= n THEN o.production_costs[j] ELSE o.storage_cost]

\* production_vars[0] - inventory_vars[0]
FirstBalanceCoefs(n) ==
    Coefs(2 * n, ProduceIx(n, 1) :> 1 @@ InventoryIx(n, 1) :> -1)

\* BalanceCoefs without the inventory carried over from period t - 1.
BalanceCoefsNoCarry(n, t) ==
    Coefs(2 * n, ProduceIx(n, t) :> 1 @@ InventoryIx(n, t) :> -1)

\* inventory_vars[i-1] + production_vars[i] - inventory_vars[i], with
\* t = i + 1 the period of the constraint (t >= 2).
BalanceCoefs(n, t) ==
    Coefs(2 * n, InventoryIx(n, t - 1) :> 1 @@ ProduceIx(n, t) :> 1
                 @@ InventoryIx(n, t) :> -1)

BalanceName(t) == "Period_" \o ToString(t) \o "_Balance"

\* AddBalances followed by the constraint the source keeps commented out:
\* inventory_vars[-1] == 0.
RECURSIVE AddBalancesZeroFinal(_, _, _)
AddBalancesZeroFinal(m, o, t) ==
    IF t > o.num_periods \/ t > Len(o.demands)
    THEN AddConstraint(m, Coefs(2 * o.num_periods,
                                InventoryIx(o.num_periods, o.num_periods) :> 1),
                       "==", 0, "Zero_Final_Inventory")
    ELSE AddBalancesZeroFinal(
            AddConstraint(m, BalanceCoefs(o.num_periods, t), "==",
                          o.demands[t], BalanceName(t)),
            o, t + 1)

\* The loop of lines 96-101 from period t on: adds one balance constraint per
\* period and stops at the first demands[i] that does not exist.
RECURSIVE AddBalances(_, _, _)
AddBalances(m, o, t) ==
    IF t > o.num_periods \/ t > Len(o.demands) THEN m
    ELSE AddBalances(
            AddConstraint(m, BalanceCoefs(o.num_periods, t), "==",
                          o.demands[t], BalanceName(t)),
            o, t + 1)

\* build_model, statement by statement (result as for BankBuild).
ProdBuild(o) ==
    LET n  == o.num_periods
        m0 == LpProblem("Production_Inventory_Optimization", LpMinimize)
        pv == [i \in 1..n |-> LpVariable("x_" \o ToString(i))]
        iv == [i \in 1..n |-> LpVariable("I_" \o ToString(i))]
        o0 == [o EXCEPT !.model = m0, !.production_vars = pv,
                        !.inventory_vars = iv]
    IN  IF n > Len(o.production_costs)
        THEN [self |-> o0, raised |-> "IndexError"]
        ELSE
        LET m1 == SetObjective(m0, ProdObjective(o), "Total_Cost")
        IN  IF n = 0 \/ Len(o.demands) = 0
            THEN [self |-> [o0 EXCEPT !.model = m1], raised |-> "IndexError"]
            ELSE
            LET m2 == AddConstraint(m1, FirstBalanceCoefs(n), "==",
                                    o.demands[1], BalanceName(1))
                m3 == AddBalances(m2, o, 2)
            IN  [self |-> [o0 EXCEPT !.model = m3],
                 raised |-> IF Len(o.demands) < n THEN "IndexError" ELSE ""]

(***************************************************************************)
(* OilRefiningOptimizer (src/src/models/oil_refining.py)                   *)
(***************************************************************************)
DefaultCrudeCapacity == 1500000
DefaultCrackerCapacity == 200000
DefaultOctaneNumbers ==
    [feedstock |-> 82, cracker |-> 98, regular |-> 87, premium |-> 89,
     super |-> 92]
DefaultDemandLimits == [regular |-> 50000, premium |-> 30000, super |-> 40000]
DefaultProfitMargins == [regular |-> 67, premium |-> 72, super |-> 81]

\* The product list every loop of the class iterates over.
Products == <<"regular", "premium", "super">>

\* OilRefiningOptimizer.__init__; the capacities are <<>> when omitted.
OilRefiningOptimizer(crude_capacity, cracker_capacity, octane_numbers, demand_limits, profit_margins) ==
    [cls |-> "OilRefiningOptimizer",
     crude_capacity |-> IF crude_capacity = <<>> THEN DefaultCrudeCapacity
                        ELSE crude_capacity[1],
     cracker_capacity |-> IF cracker_capacity = <<>> THEN DefaultCrackerCapacity
                          ELSE cracker_capacity[1],
     octane_numbers |-> OrDefault(octane_numbers, DefaultOctaneNumbers),
     demand_limits |-> OrDefault(demand_limits, DefaultDemandLimits),
     profit_margins |-> OrDefault(profit_margins, DefaultProfitMargins),
     model |-> NoneVal, variables |-> NoneVal, solution |-> NoneVal]

\* Positions of self.variables[source][product] in a point: the feedstock
\* variables of the three products, then the cracker variables.
FeedIx(k) == k
CrackIx(k) == 3 + k

\* OilObjective counting the profit of the feedstock part only.
OilObjectiveFeedOnly(o) ==
    [j \in 1..6 |-> IF j <= 3 THEN o.profit_margins[Products[j]] ELSE 0]

\* total_profit of lines 100-106
OilObjective(o) ==
    [j \in 1..6 |-> o.profit_margins[Products[IF j <= 3 THEN j ELSE j - 3]]]

\* CrudeCoefs with the feedstock ratio applied to the cracker path too.
CrudeCoefsOneRatio == [j \in 1..6 |-> 5]

\* 5 * total_feedstock + 10 * total_cracker
CrudeCoefs == [j \in 1..6 |-> IF j <= 3 THEN 5 ELSE 10]

\* 2 * total_cracker
CrackerCoefs == [j \in 1..6 |-> IF j <= 3 THEN 0 ELSE 2]

\* DemandCoefs counting the feedstock part of the product only.
DemandCoefsFeedOnly(k) == Coefs(6, FeedIx(k) :> 1)

\* variables["feedstock"][product] + variables["cracker"][product]
DemandCoefs(k) == Coefs(6, FeedIx(k) :> 1 @@ CrackIx(k) :> 1)

\* OctaneCoefs with the two sources' coefficients exchanged.
OctaneCoefsSwapped(k) ==
    CASE k = 1 -> Coefs(6, FeedIx(1) :> 11 @@ CrackIx(1) :> -5)
      [] k = 2 -> Coefs(6, FeedIx(2) :> 9 @@ CrackIx(2) :> -7)
      [] k = 3 -> Coefs(6, FeedIx(3) :> 6 @@ CrackIx(3) :> -10)

\* The octane constraints of lines 147-167, product by product.
OctaneCoefs(k) ==
    CASE k = 1 -> Coefs(6, FeedIx(1) :> -5 @@ CrackIx(1) :> 11)
      [] k = 2 -> Coefs(6, FeedIx(2) :> -7 @@ CrackIx(2) :> 9)
      [] k = 3 -> Coefs(6, FeedIx(3) :> -10 @@ CrackIx(3) :> 6)

OctaneName(k) == <<"Octane_Regular", "Octane_Premium", "Octane_Super">>[k]

\* The loop of lines 134-140 from product k on; it stops at the first
\* product demand_limits has no entry for.
RECURSIVE AddDemands(_, _, _)
AddDemands(m, o, k) ==
    IF k > 3 \/ Products[k] \notin DOMAIN o.demand_limits THEN m
    ELSE AddDemands(
            AddConstraint(m, DemandCoefs(k), "<=", o.demand_limits[Products[k]],
                          "Demand_" \o Products[k]),
            o, k + 1)

RECURSIVE AddOctanes(_, _)
AddOctanes(m, k) ==
    IF k > 3 THEN m
    ELSE AddOctanes(AddConstraint(m, OctaneCoefs(k), ">=", 0, OctaneName(k)),
                    k + 1)

\* build_model, statement by statement (result as for BankBuild).
OilBuild(o) ==
    LET m0 == LpProblem("Oil_Refining_Optimization", LpMaximize)
        vs == [j \in 1..6 |->
                LpVariable((IF j <= 3 THEN "x_feed_" ELSE "x_crack_")
                           \o Products[IF j <= 3 THEN j ELSE j - 3])]
        o0 == [o EXCEPT !.model = m0, !.variables = vs]
    IN  IF \E k \in 1..3 : Products[k] \notin DOMAIN o.profit_margins
        THEN [self |-> o0, raised |-> "KeyError"]
        ELSE
        LET m1 == SetObjective(m0, OilObjective(o), "Total_Profit")
            m2 == AddConstraint(m1, CrudeCoefs, "<=", o.crude_capacity,
                                "Crude_Capacity")
            m3 == AddConstraint(m2, CrackerCoefs, "<=", o.cracker_capacity,
                                "Cracker_Capacity")
            m4 == AddDemands(m3, o, 1)
        IN  IF \E k \in 1..3 : Products[k] \notin DOMAIN o.demand_limits
            THEN [self |-> [o0 EXCEPT !.model = m4], raised |-> "KeyError"]
            ELSE [self |-> [o0 EXCEPT !.model = AddOctanes(m4, 1)],
                  raised |-> ""]

(***************************************************************************)
(* The LP Solver Engine behind model.solve().                              *)
(***************************************************************************)
\* The names LpStatus maps a status code to.
LpStatusNames == {"Not Solved", "Optimal", "Infeasible", "Unbounded", "Undefined"}

NumVars(m) == Len(m.objective)

Feasible(m, x) ==
    \A j \in 1..Len(m.constraints) : Holds(m.constraints[j], x)

\* Whether the point x respects the lower bounds of the variables vs
\* (LpVariable(..., lowBound=0) gives every variable a bound and no cap).
VarBoundsHold(vs, x) == \A i \in 1..Len(vs) : x[i] >= vs[i].lowBound

\* value(model.objective) at the point x
ObjectiveValue(m, x) == Dot(m.objective, x)

FeasiblePoints(m) == {x \in Points[NumVars(m)] : Feasible(m, x)}

OptimalPoints(m) ==
    LET F    == FeasiblePoints(m)
        V    == {ObjectiveValue(m, x) : x \in F}
        best == CHOOSE v \in V :
                    \A w \in V : IF m.sense = LpMaximize THEN v >= w ELSE v <= w
    IN  {x \in F : ObjectiveValue(m, x) = best}

\* The rows that cap a group of variables: sense <=, coefficients 0 or 1.
CapRows(m) ==
    {j \in 1..Len(m.constraints) :
        /\ m.constraints[j].sense = "<="
        /\ \A i \in 1..NumVars(m) : m.constraints[j].coefs[i] \in {0, 1}}

RECURSIVE SumOver(_, _)
SumOver(S, f) ==
    IF S = {} THEN 0
    ELSE LET e == CHOOSE e \in S : TRUE IN f[e] + SumOver(S \ {e}, f)

\* The engine is explored on the models whose optimum lies among the
\* candidate points.  Maximize: the cap rows cover every variable and their
\* right-hand sides sum to at most MaxTotal, so no feasible point is larger.
\* Minimize (the inventory recurrence): costs are >= 0, and the demand of
\* period t is produced at most t periods early, so an optimum exists whose
\* entries sum to at most the sum of t * demand_t.
InBounds(m) ==
    /\ m.objective # <<>>
    /\ IF m.sense = LpMaximize
       THEN /\ \A i \in 1..NumVars(m) :
                    \E j \in CapRows(m) : m.constraints[j].coefs[i] = 1
            /\ SumOver(CapRows(m),
                       [j \in CapRows(m) |-> m.constraints[j].rhs]) <= MaxTotal
       ELSE /\ \A i \in 1..NumVars(m) : m.objective[i] >= 0
            /\ \A j \in 1..Len(m.constraints) : m.constraints[j].sense = "=="
            /\ SumSeq([j \in 1..Len(m.constraints) |->
                          j * m.constraints[j].rhs]) <= MaxTotal

\* What an engine that honours its interface answers: an optimal point with
\* status Optimal, Infeasible when there is no feasible point, or it gives
\* up (Not Solved, Undefined).
SoundEngine(m) ==
    LET opt == IF FeasiblePoints(m) = {}
               THEN {[status |-> "Infeasible", values |-> <<>>]}
               ELSE {[status |-> "Optimal", values |-> x] : x \in OptimalPoints(m)}
    IN  opt \cup {[status |-> s, values |-> <<>>] : s \in {"Not Solved", "Undefined"}}

\* What an arbitrary engine may answer: any status with any values.
MaxAny == 2
AnyEngine(m) ==
    {[status |-> s, values |-> x] :
        s \in LpStatusNames, x \in SeqsSum(NumVars(m), MaxAny)}

\* The model after the engine answered.
Solved(m, answer) == [m EXCEPT !.status = answer.status, !.values = answer.values]

(***************************************************************************)
(* solve(): extraction of the engine's answer into the solution dict.      *)
(***************************************************************************)
ErrorText == "Optimization failed to find optimal solution"

\* ErrorResult reporting every failure as Infeasible.
ErrorResultRelabelled(status) == [status |-> "Infeasible", error |-> ErrorText]

\* The dict solve() stores when the status is not Optimal
\* (production_inventory.py 161-164, oil_refining.py 207-210) ...
ErrorResult(status) == [status |-> status, error |-> ErrorText]

\* ... and its bank_loan.py form (172-176), with "allocations": None.
BankErrorResult(status) ==
    [status |-> status, allocations |-> NoneVal, error |-> ErrorText]

\* value(v) of the variable at position i of the model
Value(m, i) == m.values[i]

\* The dict {loan_types[i]: value(variables[i])}: one entry per distinct
\* name, the last index of a repeated name winning.
Allocations(o) ==
    LET n == Len(o.loan_types)
    IN  [name \in {o.loan_types[i] : i \in 1..n} |->
            LET i == CHOOSE i \in 1..n :
                        /\ o.loan_types[i] = name
                        /\ \A k \in 1..n : o.loan_types[k] = name => k <= i
            IN  Value(o.model, i)]

\* RoiPercentage dividing whatever the total is.
RoiPercentageUnguarded(objective_value, total_allocated) ==
    [num |-> 100 * objective_value, den |-> total_allocated]

\* RoiPercentage without the factor 100.
RoiPercentageNotScaled(objective_value, total_allocated) ==
    IF total_allocated > 0
    THEN [num |-> objective_value, den |-> total_allocated]
    ELSE [num |-> 0, den |-> 1]

\* (objective_value / total_allocated) * 100 when total_allocated > 0, else
\* 0, held as a fraction num/den of the objective's unit.
RoiPercentage(objective_value, total_allocated) ==
    IF total_allocated > 0
    THEN [num |-> 100 * objective_value, den |-> total_allocated]
    ELSE [num |-> 0, den |-> 1]

\* Lines 151-178 of bank_loan.py.
BankExtract(o) ==
    LET status == o.model.status
    IN  IF status = "Optimal"
        THEN IF Len(o.loan_types) > Len(o.variables)
             THEN [self |-> o, raised |-> "IndexError"]
             ELSE
             LET allocations     == Allocations(o)
                 total_allocated == SumOver(DOMAIN allocations, allocations)
                 objective_value == ObjectiveValue(o.model, o.model.values)
             IN  [self |-> [o EXCEPT !.solution =
                     [status |-> status,
                      allocations |-> allocations,
                      total_allocated |-> total_allocated,
                      net_return |-> objective_value,
                      roi_percentage |->
                          RoiPercentage(objective_value, total_allocated),
                      model |-> "self.model"]],
                  raised |-> ""]
        ELSE [self |-> [o EXCEPT !.solution = BankErrorResult(status)],
              raised |-> ""]

\* Lines 125-166 of production_inventory.py.
ProdExtract(o) ==
    LET status == o.model.status
        n      == o.num_periods
    IN  IF status = "Optimal"
        THEN IF n > Len(o.production_vars) \/ n > Len(o.production_costs)
             THEN [self |-> o, raised |-> "IndexError"]
             ELSE
             LET production_schedule ==
                     [i \in 1..n |-> Value(o.model, ProduceIx(Len(o.production_vars), i))]
                 inventory_schedule ==
                     [i \in 1..n |-> Value(o.model, InventoryIx(Len(o.production_vars), i))]
                 total_cost == ObjectiveValue(o.model, o.model.values)
                 production_cost ==
                     SumSeq([i \in 1..n |-> o.production_costs[i] * production_schedule[i]])
                 storage_cost ==
                     SumSeq([i \in 1..n |-> o.storage_cost * inventory_schedule[i]])
             IN  [self |-> [o EXCEPT !.solution =
                     [status |-> status,
                      production_schedule |-> production_schedule,
                      inventory_schedule |-> inventory_schedule,
                      total_cost |-> total_cost,
                      production_cost |-> production_cost,
                      storage_cost |-> storage_cost,
                      model |-> "self.model"]],
                  raised |-> ""]
        ELSE [self |-> [o EXCEPT !.solution = ErrorResult(status)],
              raised |-> ""]

\* Lines 184-212 of oil_refining.py.
OilExtract(o) ==
    LET status == o.model.status
    IN  IF status = "Optimal"
        THEN
        LET production ==
                [p \in {Products[k] : k \in 1..3} |->
                    LET k == CHOOSE k \in 1..3 : Products[k] = p
                    IN  [feedstock |-> Value(o.model, FeedIx(k)),
                         cracker |-> Value(o.model, CrackIx(k)),
                         total |-> Value(o.model, FeedIx(k))
                                   + Value(o.model, CrackIx(k))]]
            total_profit == ObjectiveValue(o.model, o.model.values)
        IN  [self |-> [o EXCEPT !.solution =
                [status |-> status,
                 production |-> production,
                 total_profit |-> total_profit,
                 daily_profit |-> total_profit,
                 model |-> "self.model"]],
             raised |-> ""]
        ELSE [self |-> [o EXCEPT !.solution = ErrorResult(status)],
              raised |-> ""]

\* Build adding its rows to the model the object already has, when it has
\* one, instead of starting from a new LpProblem.
BuildOnto(o) ==
    LET b == CASE o.cls = "BankLoanOptimizer" -> BankBuild(o)
               [] o.cls = "ProductionInventoryOptimizer" -> ProdBuild(o)
               [] o.cls = "OilRefiningOptimizer" -> OilBuild(o)
    IN  IF o.model = NoneVal THEN b
        ELSE [b EXCEPT !.self.model.constraints = o.model.constraints \o @]

\* build_model() and the extraction of solve(), by class.
Build(o) ==
    CASE o.cls = "BankLoanOptimizer" -> BankBuild(o)
      [] o.cls = "ProductionInventoryOptimizer" -> ProdBuild(o)
      [] o.cls = "OilRefiningOptimizer" -> OilBuild(o)

Extract(o) ==
    CASE o.cls = "BankLoanOptimizer" -> BankExtract(o)
      [] o.cls = "ProductionInventoryOptimizer" -> ProdExtract(o)
      [] o.cls = "OilRefiningOptimizer" -> OilExtract(o)

\* BuildIfNone rebuilding the model on every solve().
BuildAlways(o) == Build(o)

\* `if self.model is None: self.build_model()` at the head of solve()
BuildIfNone(o) ==
    IF o.model = NoneVal THEN Build(o) ELSE [self |-> o, raised |-> ""]

(***************************************************************************)
(* The constructor calls explored.                                         *)
(***************************************************************************)
BankListArgs ==
    { [interest_rates |-> <<>>, bad_debt_ratios |-> <<>>, loan_types |-> <<>>],
      [interest_rates |-> << <<150, 140>> >>,
       bad_debt_ratios |-> << <<80, 50>> >>,
       loan_types |-> << <<"Type A", "Type B">> >>],
      [interest_rates |-> << <<140, 130, 120, 125, 100, 110>> >>,
       bad_debt_ratios |-> << <<100, 70, 30, 50, 20, 10>> >>,
       loan_types |-> << <<"Personal", "Car", "Home", "Farm", "Commercial",
                           "Student">> >>],
      \* one list longer than the other two
      [interest_rates |-> << <<140, 130, 120, 125, 100, 110>> >>,
       bad_debt_ratios |-> <<>>, loan_types |-> <<>>],
      \* one list shorter than the other two
      [interest_rates |-> <<>>, bad_debt_ratios |-> << <<100, 70, 30, 50>> >>,
       loan_types |-> <<>>],
      \* empty lists
      [interest_rates |-> << <<>> >>, bad_debt_ratios |-> << <<>> >>,
       loan_types |-> << <<>> >>],
      \* a category name given twice
      [interest_rates |-> <<>>, bad_debt_ratios |-> <<>>,
       loan_types |-> << <<"Personal", "Car", "Home", "Farm", "Farm">> >>] }

BankFundsArgs == {<<>>, <<0>>, <<5>>, <<1000000>>}

BankCalls ==
    {[cls |-> "BankLoanOptimizer", total_funds |-> f,
      interest_rates |-> a.interest_rates,
      bad_debt_ratios |-> a.bad_debt_ratios, loan_types |-> a.loan_types] :
        f \in BankFundsArgs, a \in BankListArgs}

ProdArgs ==
    { [production_costs |-> <<>>, storage_cost |-> <<>>, demands |-> <<>>],
      [production_costs |-> << <<5>> >>, storage_cost |-> <<1>>,
       demands |-> << <<2>> >>],
      [production_costs |-> << <<10, 12>> >>, storage_cost |-> <<2>>,
       demands |-> << <<1, 1>> >>],
      [production_costs |-> << <<10, 12>> >>, storage_cost |-> <<2>>,
       demands |-> << <<2, 2>> >>],
      [production_costs |-> << <<3, 9, 4>> >>, storage_cost |-> <<1>>,
       demands |-> << <<1, 1, 1>> >>],
      [production_costs |-> << <<4, 6>> >>, storage_cost |-> <<>>,
       demands |-> << <<0, 2>> >>],
      \* no storage cost
      [production_costs |-> << <<3, 5>> >>, storage_cost |-> <<0>>,
       demands |-> << <<1, 1>> >>],
      \* zero demand in every period
      [production_costs |-> << <<4, 6>> >>, storage_cost |-> <<>>,
       demands |-> << <<0, 0>> >>],
      \* more costs than demands, and fewer
      [production_costs |-> << <<10, 12, 14>> >>, storage_cost |-> <<2>>,
       demands |-> << <<1, 1>> >>],
      [production_costs |-> << <<5>> >>, storage_cost |-> <<1>>,
       demands |-> << <<1, 1>> >>],
      \* empty lists
      [production_costs |-> << <<>> >>, storage_cost |-> <<>>,
       demands |-> << <<>> >>] }

ProdCalls ==
    {[cls |-> "ProductionInventoryOptimizer",
      production_costs |-> a.production_costs, storage_cost |-> a.storage_cost,
      demands |-> a.demands] : a \in ProdArgs}

OilArgs ==
    { [crude_capacity |-> <<>>, cracker_capacity |-> <<>>,
       octane_numbers |-> <<>>, demand_limits |-> <<>>],
      [crude_capacity |-> <<30>>, cracker_capacity |-> <<6>>,
       octane_numbers |-> <<>>,
       demand_limits |-> <<[regular |-> 1, premium |-> 1, super |-> 1]>>],
      [crude_capacity |-> <<20>>, cracker_capacity |-> <<4>>,
       octane_numbers |-> <<[feedstock |-> 82, cracker |-> 98, regular |-> 90,
                             premium |-> 89, super |-> 92]>>,
       demand_limits |-> <<[regular |-> 3, premium |-> 3, super |-> 3]>>],
      [crude_capacity |-> <<40>>, cracker_capacity |-> <<2>>,
       octane_numbers |-> <<>>,
       demand_limits |-> <<[regular |-> 3, premium |-> 3, super |-> 3]>>],
      \* a negative crude capacity, and a negative cracker capacity
      [crude_capacity |-> <<-1>>, cracker_capacity |-> <<6>>,
       octane_numbers |-> <<>>,
       demand_limits |-> <<[regular |-> 1, premium |-> 1, super |-> 1]>>],
      [crude_capacity |-> <<30>>, cracker_capacity |-> <<-2>>,
       octane_numbers |-> <<>>,
       demand_limits |-> <<[regular |-> 1, premium |-> 1, super |-> 1]>>] }

OilCalls ==
    {[cls |-> "OilRefiningOptimizer", crude_capacity |-> a.crude_capacity,
      cracker_capacity |-> a.cracker_capacity,
      octane_numbers |-> a.octane_numbers, demand_limits |-> a.demand_limits,
      profit_margins |-> <<>>] : a \in OilArgs}

Calls == BankCalls \cup ProdCalls \cup OilCalls

\* The object the constructor call c creates.
Construct(c) ==
    CASE c.cls = "BankLoanOptimizer" ->
            BankLoanOptimizer(c.total_funds, c.interest_rates,
                              c.bad_debt_ratios, c.loan_types)
      [] c.cls = "ProductionInventoryOptimizer" ->
            ProductionInventoryOptimizer(c.production_costs, c.storage_cost,
                                         c.demands)
      [] c.cls = "OilRefiningOptimizer" ->
            OilRefiningOptimizer(c.crude_capacity, c.cracker_capacity,
                                 c.octane_numbers, c.demand_limits,
                                 c.profit_margins)

Constructed == {Construct(c) : c \in Calls}

(***************************************************************************)
(* The state machine.                                                      *)
(***************************************************************************)
Init ==
    /\ given \in Calls
    /\ self = Construct(given)
    /\ last = "__init__"
    /\ raised = ""
    /\ returned = NoneVal
    /\ engine = ""

\* optimizer.build_model()
build_model ==
    LET b == Build(self)
    IN  /\ self' = b.self
        /\ last' = "build_model"
        /\ raised' = b.raised
        /\ returned' = IF b.raised = "" THEN [type |-> "ref", to |-> "self.model"]
                       ELSE NoneVal
        /\ engine' = ""
        /\ UNCHANGED given

\* What the engine may answer for model m: anything at all, or only what its
\* interface promises.
EngineAnswers(m, arbitrary) == IF arbitrary THEN AnyEngine(m) ELSE SoundEngine(m)

\* optimizer.solve() with an engine that answers from EngineAnswers.
SolveWith(arbitrary) ==
    LET b == BuildIfNone(self)
    IN  IF b.raised # ""
        THEN /\ self' = b.self
             /\ last' = "solve"
             /\ raised' = b.raised
             /\ returned' = NoneVal
             /\ engine' = ""
             /\ UNCHANGED given
        ELSE /\ InBounds(b.self.model)
             /\ UNCHANGED given
             /\ \E answer \in EngineAnswers(b.self.model, arbitrary) :
                    LET e == Extract([b.self EXCEPT !.model = Solved(@, answer)])
                    IN  /\ self' = e.self
                        /\ last' = "solve"
                        /\ raised' = e.raised
                        /\ returned' = IF e.raised = "" THEN e.self.solution
                                       ELSE NoneVal
                        /\ engine' = "answered"

solve == SolveWith(FALSE)

\* optimizer.solve() when the engine call itself raises: nothing in solve()
\* catches it.
solve_engine_raises ==
    LET b == BuildIfNone(self)
    IN  /\ b.raised = ""
        /\ self' = b.self
        /\ last' = "solve"
        /\ raised' = "PulpSolverError"
        /\ returned' = NoneVal
        /\ engine' = "raised"
        /\ UNCHANGED given

\* optimizer.solve() with an engine that may answer anything.
solve_any_engine == SolveWith(TRUE)

Next == build_model \/ solve \/ solve_engine_raises

Spec == Init /\ [][Next]_vars

NextAnyEngine == Next \/ solve_any_engine

SpecAnyEngine == Init /\ [][NextAnyEngine]_vars

\* The values the client assigns to a domain parameter of a constructed
\* optimizer: total_funds, demands (a list of the same length) or
\* crude_capacity.
NewTotalFunds == {0, 5}
NewDemands == {<<2>>, <<1, 1>>, <<0, 2>>, <<1, 1, 1>>}
NewCrudeCapacity == {30, -1}

\* optimizer.total_funds = v, optimizer.demands = v or
\* optimizer.crude_capacity = v: a plain attribute assignment, which touches
\* neither the model nor the solution (and not num_periods).
set_parameter ==
    /\ \/ /\ self.cls = "BankLoanOptimizer"
          /\ \E v \in NewTotalFunds : self' = [self EXCEPT !.total_funds = v]
       \/ /\ self.cls = "ProductionInventoryOptimizer"
          /\ \E v \in NewDemands :
                /\ Len(v) = Len(self.demands)
                /\ self' = [self EXCEPT !.demands = v]
       \/ /\ self.cls = "OilRefiningOptimizer"
          /\ \E v \in NewCrudeCapacity : self' = [self EXCEPT !.crude_capacity = v]
    /\ last' = "set_parameter"
    /\ raised' = ""
    /\ returned' = NoneVal
    /\ engine' = ""
    /\ UNCHANGED given

NextReconfigure == Next \/ set_parameter

SpecReconfigure == Init /\ [][NextReconfigure]_vars

(***************************************************************************)
(* calculate_constraint_violations (src/src/utils/validation.py).          *)
(*                                                                         *)
(* Its arguments are floats.  A float is held as an integer number of the  *)
(* spacing of the floats around the tolerance.  actual_value and           *)
(* required_value are larger numbers, in a range where the floats lie Ulp  *)
(* of these units apart: the sum or difference of a required value and a   *)
(* tolerance is rounded to the nearest float (ties to the even one), while *)
(* the difference of two nearby floats is a float and is exact.            *)
(***************************************************************************)
\* The spacing of the floats around actual_value and required_value.
Ulp == 4

\* The floats explored for actual_value and required_value, MaxSteps of
\* them, well inside a range of spacing Ulp.
MaxSteps == 4
LargeFloats == {(16 + 2 + k) * Ulp : k \in 1..MaxSteps}

\* The tolerances explored: 0 and the values below two spacings.
Tolerances == 0..(2 * Ulp - 1)

ConstraintTypes == {"<=", ">=", "==", "<", "!="}

\* The float nearest to the real number v (v within the range of spacing
\* Ulp), ties going to the even multiple.
RoundToFloat(v) ==
    LET lo  == (v \div Ulp) * Ulp
        rem == v - lo
    IN  IF 2 * rem < Ulp THEN lo
        ELSE IF 2 * rem > Ulp THEN lo + Ulp
        ELSE IF (lo \div Ulp) % 2 = 0 THEN lo ELSE lo + Ulp

\* max(0, v) and abs(v)
Max0(v) == IF v > 0 THEN v ELSE 0
Abs(v) == IF v >= 0 THEN v ELSE 0 - v

\* calculate_constraint_violations: the exception it ends with ("" when it
\* returns) and the tuple (satisfied, violation) it returns.
calculate_constraint_violations(actual_value, required_value, constraint_type, tolerance) ==
    CASE constraint_type = "<=" ->
            [raised |-> "",
             returned |->
                [satisfied |-> actual_value <= RoundToFloat(required_value + tolerance),
                 violation |-> Max0(actual_value - required_value)]]
      [] constraint_type = ">=" ->
            [raised |-> "",
             returned |->
                [satisfied |-> actual_value >= RoundToFloat(required_value - tolerance),
                 violation |-> Max0(required_value - actual_value)]]
      [] constraint_type = "==" ->
            [raised |-> "",
             returned |->
                [satisfied |-> Abs(actual_value - required_value) <= tolerance,
                 violation |-> Abs(actual_value - required_value)]]
      [] OTHER -> [raised |-> "ValueError", returned |-> NoneVal]

ViolationCalls ==
    {[fn |-> "calculate_constraint_violations", actual_value |-> a,
      required_value |-> r, constraint_type |-> c, tolerance |-> t] :
        a \in LargeFloats, r \in LargeFloats, c \in ConstraintTypes,
        t \in Tolerances}

InitViolations ==
    /\ given \in ViolationCalls
    /\ self = NoneVal
    /\ last = ""
    /\ raised = ""
    /\ returned = NoneVal
    /\ engine = ""

\* The call calculate_constraint_violations(**given)
call_calculate_constraint_violations ==
    /\ last = ""
    /\ LET r == calculate_constraint_violations(
                    given.actual_value, given.required_value,
                    given.constraint_type, given.tolerance)
       IN  /\ raised' = r.raised
           /\ returned' = r.returned
    /\ last' = "calculate_constraint_violations"
    /\ UNCHANGED <<given, self, engine>>

SpecViolations ==
    InitViolations /\ [][call_calculate_constraint_violations]_vars

(***************************************************************************)
(* Properties.                                                             *)
(***************************************************************************)
IsBank == self.cls = "BankLoanOptimizer"
IsProd == self.cls = "ProductionInventoryOptimizer"
IsOil  == self.cls = "OilRefiningOptimizer"

\* The last call was build_model() or solve() and it returned.
CallReturned == last # "__init__" /\ raised = ""

\* r*Sum_T x - (1-r)*Sum_S x, r in thousandths, over n variables
RatioMinimumForm(n, r, T, S) ==
    [i \in 1..n |-> IF i \in T THEN r ELSE IF i \in S THEN -(1000 - r) ELSE 0]

\* C1: with five categories, Farm_Commercial_Minimum holds at an allocation
\* exactly when x3+x4 is at least 40% of the whole allocation, and
\* Home_Loan_Minimum exactly when x2 is at least 50% of x0+x1+x2; both rows
\* are r*Sum_T x - (1-r)*Sum_S x <= 0.
C1_RatioMinimumRows ==
    (IsBank /\ CallReturned /\ Len(self.loan_types) = 5) =>
        /\ HasConstraint(self.model, "Farm_Commercial_Minimum")
        /\ HasConstraint(self.model, "Home_Loan_Minimum")
        /\ LET farm == ConstraintNamed(self.model, "Farm_Commercial_Minimum")
               home == ConstraintNamed(self.model, "Home_Loan_Minimum")
           IN  /\ farm.sense = "<=" /\ farm.rhs = 0
               /\ farm.coefs = RatioMinimumForm(5, 400, {1, 2, 3}, {4, 5})
               /\ home.sense = "<=" /\ home.rhs = 0
               /\ home.coefs = RatioMinimumForm(5, 500, {1, 2}, {3})
               /\ \A x \in Points[5] :
                    /\ Holds(farm, x) <=>
                         10 * (x[4] + x[5]) >= 4 * (x[1] + x[2] + x[3] + x[4] + x[5])
                    /\ Holds(home, x) <=>
                         10 * x[3] >= 5 * (x[1] + x[2] + x[3])

\* A five-category model is built and each of the two rows separates the
\* allocations: it holds at some and fails at others.
C1_Witness ==
    /\ IsBank /\ CallReturned /\ Len(self.loan_types) = 5
    /\ LET farm == ConstraintNamed(self.model, "Farm_Commercial_Minimum")
           home == ConstraintNamed(self.model, "Home_Loan_Minimum")
       IN  /\ \E x \in Points[5] : SumSeq(x) > 0 /\ Holds(farm, x) /\ Holds(home, x)
           /\ \E x \in Points[5] : ~Holds(farm, x)
           /\ \E x \in Points[5] : ~Holds(home, x)

\* C2: Bad_Debt_Limit holds at an allocation exactly when the expected bad
\* debt, sum of bad_debt_i * x_i, is at most 4% of the total allocation.
C2_BadDebtRow ==
    (IsBank /\ CallReturned /\ Len(self.loan_types) >= 5) =>
        /\ HasConstraint(self.model, "Bad_Debt_Limit")
        /\ LET n   == Len(self.loan_types)
               row == ConstraintNamed(self.model, "Bad_Debt_Limit")
           IN  \A x \in Points[n] :
                    Holds(row, x) <=>
                        SumSeq([i \in 1..n |-> self.bad_debt_ratios[i] * x[i]])
                            <= 40 * SumSeq(x)

\* A model with the Bad_Debt_Limit row is built, and the row holds at some
\* non-zero allocation and fails at another.
C2_Witness ==
    /\ IsBank /\ CallReturned /\ Len(self.loan_types) >= 5
    /\ LET n   == Len(self.loan_types)
           row == ConstraintNamed(self.model, "Bad_Debt_Limit")
       IN  /\ \E x \in Points[n] : SumSeq(x) > 0 /\ Holds(row, x)
           /\ \E x \in Points[n] : ~Holds(row, x)

\* C3: the objective of a built bank model is maximize
\* sum (interest_rate_i*(1 - bad_debt_i) - bad_debt_i) * x_i, with one
\* coefficient per loan type, each >= 0 for the default parameters.
C3_NetReturnObjective ==
    (IsBank /\ self.model # NoneVal /\ self.model.objective # <<>>) =>
        LET n == Len(self.loan_types)
        IN  /\ self.model.sense = "Maximize"
            /\ Len(calculate_net_returns(self)) = n
            /\ Len(self.model.objective) = n
            /\ \A i \in 1..n :
                    self.model.objective[i] =
                        self.interest_rates[i] * 1000
                        - self.interest_rates[i] * self.bad_debt_ratios[i]
                        - self.bad_debt_ratios[i] * 1000
            /\ (/\ self.interest_rates = DefaultInterestRates
                /\ self.bad_debt_ratios = DefaultBadDebtRatios
                /\ self.loan_types = DefaultLoanTypes)
               => \A i \in 1..n : calculate_net_returns(self)[i] >= 0

\* build_model() has just set the objective of a bank model from rates other
\* than the default ones, some bad-debt ratio being positive.
C3_Witness ==
    /\ IsBank /\ self.model # NoneVal /\ self.model.objective # <<>>
    /\ last = "build_model"
    /\ self.interest_rates # DefaultInterestRates
    /\ \E i \in 1..Len(self.loan_types) : self.bad_debt_ratios[i] > 0

\* The balance of period t at the point x of an n-period model:
\* inventory_{t-1} + produce_t - inventory_t, with no inventory before
\* period 1.
BalanceAt(n, t, x) ==
    (IF t = 1 THEN 0 ELSE x[n + t - 1]) + x[t] - x[n + t]

\* C4: build_model yields exactly n equality rows in period order; row 1 is
\* produce_1 - inventory_1 = demand_1 and row t is
\* inventory_{t-1} + produce_t - inventory_t = demand_t, so every feasible
\* point meets each period's balance exactly.
C4_BalanceRecurrence ==
    (IsProd /\ CallReturned) =>
        LET n == self.num_periods
            m == self.model
        IN  /\ n >= 1
            /\ Len(m.constraints) = n
            /\ \A t \in 1..n :
                /\ m.constraints[t].name = "Period_" \o ToString(t) \o "_Balance"
                /\ m.constraints[t].sense = "=="
                /\ m.constraints[t].rhs = self.demands[t]
                /\ m.constraints[t].coefs =
                     [j \in 1..(2 * n) |->
                        IF j = t THEN 1
                        ELSE IF j = n + t THEN -1
                        ELSE IF t > 1 /\ j = n + t - 1 THEN 1 ELSE 0]
            /\ 2 * n <= MaxVars =>
                 \A x \in Points[2 * n] :
                    Feasible(m, x) =>
                        \A t \in 1..n : BalanceAt(n, t, x) = self.demands[t]

\* A model of at least two periods is built and has a feasible point that
\* carries inventory from one period into the next.
C4_Witness ==
    /\ IsProd /\ CallReturned /\ self.num_periods >= 2
    /\ 2 * self.num_periods <= MaxVars
    /\ \E x \in Points[2 * self.num_periods] :
            Feasible(self.model, x) /\ x[self.num_periods + 1] > 0

\* C5: for configured octane numbers with feedstock < required < cracker,
\* the octane row of each product is
\* (feedstock - required)*x_feed + (cracker - required)*x_crack >= 0; with
\* 82, 98 and a required octane of 90 every feasible blend of the product is
\* at most half feedstock.
C5_OctaneRowsFromConfiguredNumbers ==
    (IsOil /\ CallReturned) =>
        \A k \in 1..3 :
            LET lo  == self.octane_numbers.feedstock
                hi  == self.octane_numbers.cracker
                req == self.octane_numbers[Products[k]]
                row == ConstraintNamed(self.model,
                          <<"Octane_Regular", "Octane_Premium", "Octane_Super">>[k])
            IN  (lo < req /\ req < hi) =>
                    /\ row.sense = ">=" /\ row.rhs = 0
                    /\ row.coefs = [j \in 1..6 |->
                                      IF j = k THEN lo - req
                                      ELSE IF j = 3 + k THEN hi - req ELSE 0]
                    /\ (lo = 82 /\ hi = 98 /\ req = 90) =>
                          \A x \in Points[6] :
                              Feasible(self.model, x) => 2 * x[k] <= x[k] + x[3 + k]

\* C6: in every feasible point of a built refinery model, and so in every
\* Optimal result, 5*(total feedstock) + 10*(total cracker output) is at most
\* crude_capacity and 2*(total cracker output) at most cracker_capacity.
C6_CapacityRows ==
    (IsOil /\ CallReturned) =>
        /\ \A x \in Points[6] :
              Feasible(self.model, x) =>
                  /\ 5 * (x[1] + x[2] + x[3]) + 10 * (x[4] + x[5] + x[6])
                        <= self.crude_capacity
                  /\ 2 * (x[4] + x[5] + x[6]) <= self.cracker_capacity
        /\ (last = "solve" /\ self.solution.status = "Optimal") =>
              LET p == self.solution.production
                  total_feedstock == p.regular.feedstock + p.premium.feedstock
                                     + p.super.feedstock
                  total_cracker   == p.regular.cracker + p.premium.cracker
                                     + p.super.cracker
              IN  /\ 5 * total_feedstock + 10 * total_cracker <= self.crude_capacity
                  /\ 2 * total_cracker <= self.cracker_capacity

\* solve() returned an Optimal refinery result that uses the whole cracker
\* capacity.
C6_Witness ==
    /\ IsOil /\ last = "solve" /\ raised = ""
    /\ self.solution.status = "Optimal"
    /\ LET p == self.solution.production
       IN  /\ p.regular.cracker + p.premium.cracker + p.super.cracker > 0
           /\ 2 * (p.regular.cracker + p.premium.cracker + p.super.cracker)
                = self.cracker_capacity

\* C7: for every product, feedstock + cracker is at most the product's
\* demand limit in every feasible point and in every Optimal result, whose
\* 'total' is that sum.
C7_DemandRows ==
    (IsOil /\ CallReturned) =>
        /\ \A x \in Points[6] :
              Feasible(self.model, x) =>
                  \A k \in 1..3 : x[k] + x[3 + k] <= self.demand_limits[Products[k]]
        /\ (last = "solve" /\ self.solution.status = "Optimal") =>
              \A k \in 1..3 :
                  LET r == self.solution.production[Products[k]]
                  IN  /\ r.feedstock = self.model.values[k]
                      /\ r.cracker = self.model.values[3 + k]
                      /\ r.total = r.feedstock + r.cracker
                      /\ r.total <= self.demand_limits[Products[k]]

\* solve() returned an Optimal refinery result that meets the demand limit
\* of every product with a non-empty blend.
C7_Witness ==
    /\ IsOil /\ last = "solve" /\ raised = ""
    /\ self.solution.status = "Optimal"
    /\ \A k \in 1..3 :
          /\ self.solution.production[Products[k]].total > 0
          /\ self.solution.production[Products[k]].total
                = self.demand_limits[Products[k]]

\* The keys of a solution dict that hold amounts or metrics, and those among
\* them a dict holds with a value other than None.
NumericKeys ==
    {"allocations", "total_allocated", "net_return", "roi_percentage",
     "production_schedule", "inventory_schedule", "total_cost",
     "production_cost", "storage_cost", "production", "total_profit",
     "daily_profit"}

NumericFields(d) ==
    {k \in (DOMAIN d) \cap NumericKeys :
        ~(k = "allocations" /\ d.allocations = NoneVal)}

\* C8: when the engine's status is not Optimal, solve() returns and stores a
\* dict with that status and no numeric field; numeric fields are present
\* only when the status is Optimal.
C8_ErrorResultCarriesStatusOnly ==
    (last = "solve" /\ raised = "") =>
        /\ returned = self.solution
        /\ self.solution.status = self.model.status
        /\ self.solution.status # "Optimal" => NumericFields(self.solution) = {}
        /\ self.solution.status = "Optimal" => NumericFields(self.solution) # {}

\* solve() of a BankLoanOptimizer returned after the engine answered
\* Unbounded.
C8_Witness ==
    /\ IsBank /\ last = "solve" /\ raised = ""
    /\ self.model.status = "Unbounded"
    /\ "error" \in DOMAIN self.solution

\* C9: solve() never returns an Optimal result whose values violate a
\* constraint of the model, whatever the engine answered.
C9_OptimalResultSatisfiesModel ==
    (last = "solve" /\ raised = "" /\ self.solution.status = "Optimal") =>
        Feasible(self.model, self.model.values)

\* C10: when the engine call raises, solve() still returns, and returns a
\* result whose status is Not Solved.
C10_EngineFailureReturnsNotSolved ==
    engine = "raised" =>
        /\ raised = ""
        /\ returned # NoneVal
        /\ returned.status = "Not Solved"

\* The parallel input lists of the object have different lengths.
MismatchedLists ==
    \/ /\ IsBank
       /\ ~(/\ Len(self.interest_rates) = Len(self.loan_types)
            /\ Len(self.bad_debt_ratios) = Len(self.loan_types))
    \/ /\ IsProd
       /\ Len(self.production_costs) # Len(self.demands)

\* C11: when the parallel lists of a bank or production optimizer differ in
\* length, no model is ever produced, every build_model() or solve() call
\* ends with an error and the engine is never invoked.
C11_MismatchedListsRejected ==
    MismatchedLists =>
        /\ self.model = NoneVal
        /\ engine = ""
        /\ last # "__init__" => raised # ""

\* The constructor was given an empty list for a list-valued parameter.
EmptyListGiven ==
    \/ /\ IsBank
       /\ \/ given.interest_rates = << <<>> >>
          \/ given.bad_debt_ratios = << <<>> >>
          \/ given.loan_types = << <<>> >>
    \/ /\ IsProd
       /\ \/ given.production_costs = << <<>> >>
          \/ given.demands = << <<>> >>

\* C12: an empty list given for a list-valued parameter is rejected before
\* model construction: no model is ever built from it, every build_model()
\* or solve() call ends with an error and the engine is never reached.
C12_EmptyListRejected ==
    EmptyListGiven =>
        /\ self.model = NoneVal
        /\ engine = ""
        /\ last # "__init__" => raised # ""

\* C13: a negative crude_capacity or cracker_capacity is rejected before a
\* model is built: no model exists, every build_model() or solve() call ends
\* with an error, the engine is never invoked and no result (such as an
\* Infeasible one) is stored.
C13_NegativeCapacityRejected ==
    (IsOil /\ (self.crude_capacity < 0 \/ self.cracker_capacity < 0)) =>
        /\ self.model = NoneVal
        /\ self.solution = NoneVal
        /\ engine = ""
        /\ last # "__init__" => raised # ""

\* solve() of a refinery with a negative capacity returned the engine's
\* Infeasible status.
C13_NegativeCapacityReportedInfeasible ==
    /\ IsOil /\ (self.crude_capacity < 0 \/ self.cracker_capacity < 0)
    /\ last = "solve" /\ raised = "" /\ engine = "answered"
    /\ returned = self.solution
    /\ self.solution.status = "Infeasible"

\* C14: a stored solution always belongs to the current model: its status is
\* the model's status, and right after build_model() returned there is no
\* solution (the optimizer is Built: model present, solution absent).
C14_SolutionBelongsToCurrentModel ==
    /\ self.solution # NoneVal =>
          /\ self.model # NoneVal
          /\ self.solution.status = self.model.status
    /\ (last = "build_model" /\ raised = "") =>
          /\ self.model # NoneVal
          /\ self.solution = NoneVal

\* The two-category portfolio: category A (rate 0.15, bad debt 0.08) and
\* category B (rate 0.14, bad debt 0.05) with a positive capital.
TwoCategoryScenario ==
    /\ IsBank
    /\ self.loan_types = <<"Type A", "Type B">>
    /\ self.interest_rates = <<150, 140>>
    /\ self.bad_debt_ratios = <<80, 50>>
    /\ self.total_funds > 0

\* C15: in the two-category portfolio build_model() and solve() succeed, no
\* ratio row is applied, and an answer of the engine is Optimal with the
\* whole capital on category B and objective 0.083 * capital (83,000 for a
\* capital of 1,000,000; the objective is held in millionths).
C15_TwoCategoryPortfolio ==
    (TwoCategoryScenario /\ last # "__init__") =>
        /\ raised = ""
        /\ ~HasConstraint(self.model, "Farm_Commercial_Minimum")
        /\ ~HasConstraint(self.model, "Home_Loan_Minimum")
        /\ (last = "solve" /\ engine = "answered") =>
             /\ self.solution.status \notin {"Infeasible", "Unbounded"}
             /\ self.solution.status = "Optimal" =>
                  /\ self.solution.allocations["Type A"] = 0
                  /\ self.solution.allocations["Type B"] = self.total_funds
                  /\ self.solution.net_return = 83000 * self.total_funds

\* BankLoanOptimizer(total_funds=0) with the default lists.
ZeroFundsCall ==
    /\ IsBank
    /\ given.total_funds = <<0>>
    /\ self.interest_rates = DefaultInterestRates
    /\ self.bad_debt_ratios = DefaultBadDebtRatios
    /\ self.loan_types = DefaultLoanTypes

\* C16: with total_funds = 0 the capital stays 0; solve() returns once the
\* engine answered, the answer is not Infeasible or Unbounded, and an
\* Optimal result allocates 0 to every category with net_return 0 and
\* roi_percentage 0, computed without dividing by the zero total.
C16_ZeroFunds ==
    ZeroFundsCall =>
        /\ self.total_funds = 0
        /\ (last = "solve" /\ engine = "answered") =>
             /\ raised = ""
             /\ self.solution.status \notin {"Infeasible", "Unbounded"}
             /\ self.solution.status = "Optimal" =>
                  /\ \A i \in 1..Len(self.loan_types) :
                        self.solution.allocations[self.loan_types[i]] = 0
                  /\ self.solution.total_allocated = 0
                  /\ self.solution.net_return = 0
                  /\ self.solution.roi_percentage.den # 0
                  /\ self.solution.roi_percentage.num = 0

\* solve() of BankLoanOptimizer(total_funds=0) returned an Optimal result.
C16_Witness ==
    /\ ZeroFundsCall
    /\ last = "solve" /\ raised = "" /\ engine = "answered"
    /\ self.solution.status = "Optimal"
    /\ self.solution.total_allocated = 0

\* Production through period t and demand through period t.
RECURSIVE CumulativeProduction(_, _)
CumulativeProduction(x, t) ==
    IF t = 0 THEN 0 ELSE x[t] + CumulativeProduction(x, t - 1)

RECURSIVE CumulativeDemand(_, _)
CumulativeDemand(d, t) ==
    IF t = 0 THEN 0 ELSE d[t] + CumulativeDemand(d, t - 1)

\* C17: every production and inventory variable has lower bound 0, so at
\* every point that meets the balance rows and the variables' bounds, and
\* for every period t, production through t minus demand through t equals
\* inventory_t and is >= 0; total production is at least total demand.
C17_NoBacklog ==
    (IsProd /\ CallReturned) =>
        LET n  == self.num_periods
            vs == self.production_vars \o self.inventory_vars
        IN  /\ Len(self.production_vars) = n /\ Len(self.inventory_vars) = n
            /\ \A i \in 1..(2 * n) : vs[i].lowBound = 0
            /\ 2 * n <= MaxVars =>
                 \A x \in SignedPoints(2 * n) :
                    (Feasible(self.model, x) /\ VarBoundsHold(vs, x)) =>
                        /\ \A t \in 1..n :
                              /\ CumulativeProduction(x, t)
                                    - CumulativeDemand(self.demands, t) = x[n + t]
                              /\ CumulativeProduction(x, t)
                                    >= CumulativeDemand(self.demands, t)
                        /\ CumulativeProduction(x, n)
                              >= CumulativeDemand(self.demands, n)

\* A model of at least two periods with a positive demand is built; some
\* point meets its balance rows only with a backlog (a negative inventory),
\* which the bounds exclude, and some point meets rows and bounds.
C17_Witness ==
    /\ IsProd /\ CallReturned /\ self.num_periods >= 2
    /\ 2 * self.num_periods <= MaxVars
    /\ LET n  == self.num_periods
           vs == self.production_vars \o self.inventory_vars
       IN  /\ \E x \in SignedPoints(2 * n) :
                /\ Feasible(self.model, x)
                /\ \E t \in 1..n : x[n + t] < 0
                /\ ~VarBoundsHold(vs, x)
           /\ \E x \in SignedPoints(2 * n) :
                Feasible(self.model, x) /\ VarBoundsHold(vs, x)

\* The two-period scenario at scale u: production costs [10, 12], storage
\* cost 2 and demands [u, u].  The model is linear in the demands, so the
\* scenario's [100, 100] is the case u = 1 in units of 100.
TwoPeriodScenario ==
    /\ IsProd
    /\ self.production_costs = <<10, 12>>
    /\ self.storage_cost = 2
    /\ Len(self.demands) = 2
    /\ self.demands[1] = self.demands[2]
    /\ self.demands[1] > 0

\* C18: in the two-period scenario the model is feasible, no feasible point
\* costs less than 22*u (2200 for u = 100), some feasible point costs
\* exactly that, every feasible point of that cost produces 2*u in total,
\* and an answer of the engine is Optimal with that cost and that total.
C18_TwoPeriodOptimum ==
    (TwoPeriodScenario /\ CallReturned) =>
        LET u == self.demands[1]
            m == self.model
            Cost(x) == 10 * x[1] + 12 * x[2] + 2 * x[3] + 2 * x[4]
        IN  /\ \E x \in Points[4] : Feasible(m, x) /\ Cost(x) = 22 * u
            /\ \A x \in Points[4] :
                  Feasible(m, x) =>
                      /\ Cost(x) >= 22 * u
                      /\ Cost(x) = 22 * u => x[1] + x[2] = 2 * u
            /\ (last = "solve" /\ engine = "answered") =>
                  /\ self.solution.status \notin {"Infeasible", "Unbounded"}
                  /\ self.solution.status = "Optimal" =>
                        /\ self.solution.total_cost = 22 * u
                        /\ SumSeq(self.solution.production_schedule) = 2 * u

\* solve() returned an Optimal result for the two-period scenario in which
\* the second period's demand is produced early and stored.
C18_Witness ==
    /\ TwoPeriodScenario /\ last = "solve" /\ raised = ""
    /\ self.solution.status = "Optimal"
    /\ self.solution.inventory_schedule[1] > 0
    /\ self.solution.total_cost = 22 * self.demands[1]

\* ProductionInventoryOptimizer was given a non-empty demand list that is
\* zero in every period, the costs being positive.
ZeroDemandCall ==
    /\ IsProd
    /\ given.demands # <<>>
    /\ given.demands[1] # <<>>
    /\ \A t \in 1..Len(given.demands[1]) : given.demands[1][t] = 0
    /\ \A t \in 1..Len(self.production_costs) : self.production_costs[t] > 0
    /\ self.storage_cost > 0

\* C19: a demand list that is zero in every period is kept as given; the
\* model has one balance row per given period, each with right-hand side 0,
\* and an answer of the engine is Optimal with production 0 and inventory 0
\* in every period and total cost 0.
C19_ZeroDemand ==
    ZeroDemandCall =>
        LET n == Len(given.demands[1])
        IN  /\ self.demands = given.demands[1]
            /\ self.num_periods = n
            /\ CallReturned =>
                  /\ Len(self.model.constraints) = n
                  /\ Len(self.production_vars) = n
                  /\ Len(self.inventory_vars) = n
                  /\ \A t \in 1..n : self.model.constraints[t].rhs = 0
            /\ (last = "solve" /\ engine = "answered") =>
                  /\ raised = ""
                  /\ self.solution.status \notin {"Infeasible", "Unbounded"}
                  /\ self.solution.status = "Optimal" =>
                        /\ self.solution.production_schedule = [t \in 1..n |-> 0]
                        /\ self.solution.inventory_schedule = [t \in 1..n |-> 0]
                        /\ self.solution.total_cost = 0

\* solve() returned an Optimal result for a two-period all-zero demand.
C19_Witness ==
    /\ ZeroDemandCall /\ Len(given.demands[1]) = 2
    /\ last = "solve" /\ raised = "" /\ engine = "answered"
    /\ self.solution.status = "Optimal"
    /\ self.solution.total_cost = 0

\* The point of an n-period model that produces each period's demand in its
\* period and one unit more in the last period, left in stock at the end.
LeftoverPoint(o) ==
    LET n == o.num_periods
    IN  [j \in 1..(2 * n) |->
            IF j < n THEN o.demands[j]
            ELSE IF j = n THEN o.demands[n] + 1
            ELSE IF j = 2 * n THEN 1 ELSE 0]

\* C20: a built production model has the balance rows only, none of them
\* forcing the final inventory to zero: the point that leaves one unit in
\* stock after the last period is feasible, and the objective charges the
\* final inventory the storage cost like any other period's.
C20_FinalInventoryFree ==
    (IsProd /\ CallReturned) =>
        LET n == self.num_periods
            m == self.model
            x == LeftoverPoint(self)
        IN  /\ ~HasConstraint(m, "Zero_Final_Inventory")
            /\ Len(m.constraints) = n
            /\ x[2 * n] > 0
            /\ Feasible(m, x)
            /\ m.objective[2 * n] = self.storage_cost
            /\ ObjectiveValue(m, x) =
                  SumSeq([t \in 1..n |-> self.production_costs[t] * x[t]])
                  + self.storage_cost * x[2 * n]

\* The default six-period model is built and the point with leftover stock
\* is feasible in it at a positive storage charge.
C20_Witness ==
    /\ IsProd /\ CallReturned
    /\ self.demands = DefaultDemands
    /\ self.storage_cost > 0
    /\ Feasible(self.model, LeftoverPoint(self))
    /\ LeftoverPoint(self)[2 * self.num_periods] = 1

\* The domain parameters of an optimizer: every attribute but the model, the
\* variables and the solution.
DomainParams(o) ==
    [k \in (DOMAIN o) \ {"model", "variables", "production_vars",
                         "inventory_vars", "solution"} |-> o[k]]

\* The objective and the labelled rows of a model, in order.
Structure(m) ==
    [sense |-> m.sense, objective |-> m.objective, constraints |-> m.constraints]

\* C21: build_model() leaves every domain parameter unchanged; called on an
\* object that already has a model (built from the same parameters) it
\* yields a model with the same objective and the same rows (labels, order,
\* coefficients, operators, right-hand sides), and the model it yields is
\* the one a second object constructed by the same call builds.
C21_BuildIdempotent ==
    [][last' = "build_model" =>
          /\ DomainParams(self') = DomainParams(self)
          /\ self.model # NoneVal =>
                Structure(self'.model) = Structure(self.model)
          /\ Structure(self'.model) = Structure(Build(Construct(given)).self.model)
      ]_vars

\* build_model() returned on an optimizer that had been solved before, so
\* the call was at least the second build of its model.
C21_Witness ==
    /\ last = "build_model" /\ raised = ""
    /\ self.solution # NoneVal
    /\ Len(self.model.constraints) > 0

\* C22: in every Optimal result of BankLoanOptimizer.solve() every
\* allocation is >= 0, total_allocated is the sum of the allocations (the
\* sum of all variable values when the category names are distinct) and is
\* at most total_funds, and roi_percentage is 100 * net_return /
\* total_allocated whenever total_allocated > 0.
C22_BankOptimalResult ==
    (IsBank /\ last = "solve" /\ raised = "" /\ self.solution.status = "Optimal") =>
        LET r == self.solution
            n == Len(self.loan_types)
        IN  /\ \A name \in DOMAIN r.allocations : r.allocations[name] >= 0
            /\ r.total_allocated = SumOver(DOMAIN r.allocations, r.allocations)
            /\ Cardinality({self.loan_types[i] : i \in 1..n}) = n =>
                  r.total_allocated = SumSeq(self.model.values)
            /\ r.total_allocated <= self.total_funds
            /\ r.total_allocated > 0 =>
                  /\ r.roi_percentage.den # 0
                  /\ r.roi_percentage.num * r.total_allocated
                        = 100 * r.net_return * r.roi_percentage.den

\* solve() returned an Optimal bank result that lends the whole capital at a
\* positive net return.
C22_Witness ==
    /\ IsBank /\ last = "solve" /\ raised = ""
    /\ self.solution.status = "Optimal"
    /\ self.solution.total_allocated > 0
    /\ self.solution.total_allocated = self.total_funds
    /\ self.solution.net_return > 0

\* C23: with the default octane numbers (feedstock 82, cracker 98, required
\* 87/89/92), in every feasible point of the built refinery model every
\* product with a blend > 0 has weighted average octane
\* (82*feedstock + 98*cracker)/total at least its required octane.
C23_OctaneAverage ==
    (IsOil /\ CallReturned /\ self.octane_numbers = DefaultOctaneNumbers) =>
        \A x \in Points[6] :
            Feasible(self.model, x) =>
                \A k \in 1..3 :
                    LET feedstock == x[k]
                        cracker   == x[3 + k]
                        required  == <<87, 89, 92>>[k]
                    IN  feedstock + cracker > 0 =>
                            82 * feedstock + 98 * cracker
                                >= required * (feedstock + cracker)

\* A refinery model with the default octane numbers is built; some feasible
\* point blends both sources into regular, and some point within the
\* capacity and demand rows is excluded by an octane row alone.
C23_Witness ==
    /\ IsOil /\ CallReturned /\ self.octane_numbers = DefaultOctaneNumbers
    /\ \E x \in Points[6] :
            Feasible(self.model, x) /\ x[1] > 0 /\ x[4] > 0
    /\ \E x \in Points[6] :
            /\ ~Feasible(self.model, x)
            /\ 82 * x[1] + 98 * x[4] < 87 * (x[1] + x[4])
            /\ \A j \in 1..Len(self.model.constraints) :
                  self.model.constraints[j].name \notin
                        {"Octane_Regular", "Octane_Premium", "Octane_Super"}
                    => Holds(self.model.constraints[j], x)

\* C24: in every Optimal result of OilRefiningOptimizer.solve(),
\* total_profit and daily_profit equal the sum over the three products of
\* profit_margins[p] * production[p].total, where total is feedstock +
\* cracker, and every feedstock, cracker and total amount is >= 0.
C24_OilProfit ==
    (IsOil /\ last = "solve" /\ raised = "" /\ self.solution.status = "Optimal") =>
        LET r == self.solution
        IN  /\ \A k \in 1..3 :
                  LET p == r.production[Products[k]]
                  IN  /\ p.total = p.feedstock + p.cracker
                      /\ p.feedstock >= 0 /\ p.cracker >= 0 /\ p.total >= 0
            /\ r.total_profit =
                  SumSeq([k \in 1..3 |->
                            self.profit_margins[Products[k]]
                                * r.production[Products[k]].total])
            /\ r.daily_profit = r.total_profit

\* solve() returned an Optimal refinery result with a positive profit made
\* from cracker output.
C24_Witness ==
    /\ IsOil /\ last = "solve" /\ raised = ""
    /\ self.solution.status = "Optimal"
    /\ self.solution.total_profit > 0
    /\ \E k \in 1..3 : self.solution.production[Products[k]].cracker > 0

\* C25: in every Optimal result of ProductionInventoryOptimizer.solve(),
\* total_cost = production_cost + storage_cost, production_cost is the sum
\* of production_costs[t] * production_schedule[t], storage_cost is the unit
\* storage cost times the sum of inventory_schedule, and both schedules have
\* num_periods entries.
C25_CostBreakdown ==
    (IsProd /\ last = "solve" /\ raised = "" /\ self.solution.status = "Optimal") =>
        LET r == self.solution
            n == self.num_periods
        IN  /\ Len(r.production_schedule) = n
            /\ Len(r.inventory_schedule) = n
            /\ r.production_cost =
                  SumSeq([t \in 1..n |->
                            self.production_costs[t] * r.production_schedule[t]])
            /\ r.storage_cost = self.storage_cost * SumSeq(r.inventory_schedule)
            /\ r.total_cost = r.production_cost + r.storage_cost

\* solve() returned an Optimal production plan that pays for production and
\* for storage.
C25_Witness ==
    /\ IsProd /\ last = "solve" /\ raised = ""
    /\ self.solution.status = "Optimal"
    /\ self.solution.production_cost > 0
    /\ self.solution.storage_cost > 0

\* C26: every decision variable of a bank model has a name no other variable
\* of the model has, also when a category name is configured twice, and the
\* allocations of an Optimal result have exactly one entry per variable.
C26_UniqueVariableNames ==
    (IsBank /\ self.variables # NoneVal) =>
        /\ \A i, j \in 1..Len(self.variables) :
              self.variables[i].name = self.variables[j].name => i = j
        /\ (last = "solve" /\ raised = "" /\ self.solution.status = "Optimal") =>
              Cardinality(DOMAIN self.solution.allocations) = Len(self.variables)

\* C27: solve() builds the model exactly when the optimizer has none, and
\* then from the current parameters; on an optimizer that has a model it
\* leaves the model's objective and rows as they are, whatever the
\* parameters are now, and an Optimal result it returns satisfies the rows
\* of that model.
C27_SolveBuildsOnlyWhenNoModel ==
    [][last' = "solve" =>
          /\ IF self.model = NoneVal
             THEN Structure(self'.model) = Structure(Build(self).self.model)
             ELSE Structure(self'.model) = Structure(self.model)
          /\ DomainParams(self') = DomainParams(self)
          /\ (raised' = "" /\ self'.solution.status = "Optimal") =>
                Feasible(self'.model, self'.model.values)
      ]_vars

\* solve() returned an Optimal result that lends more than the current
\* total_funds: the model had been built before total_funds was lowered.
C27_Witness ==
    /\ IsBank /\ last = "solve" /\ raised = ""
    /\ self.solution.status = "Optimal"
    /\ HasConstraint(self.model, "Total_Funds_Constraint")
    /\ ConstraintNamed(self.model, "Total_Funds_Constraint").rhs # self.total_funds
    /\ self.solution.total_allocated > self.total_funds

\* C28: for five or more configured categories, Farm_Commercial_Minimum
\* holds at an allocation exactly when x[3] + x[4] is at least 40% of the
\* sum of the allocations of all configured categories, the categories
\* summed in Total_Funds_Constraint.
C28_FarmShareOfAllCategories ==
    (IsBank /\ CallReturned /\ Len(self.loan_types) >= 5) =>
        LET n     == Len(self.loan_types)
            farm  == ConstraintNamed(self.model, "Farm_Commercial_Minimum")
            funds == ConstraintNamed(self.model, "Total_Funds_Constraint")
        IN  \A x \in Points[n] :
                Holds(farm, x) <=> 10 * (x[4] + x[5]) >= 4 * Dot(funds.coefs, x)

\* Every production cost is > 0, the storage cost is >= 0 and every demand
\* is >= 0.
PositiveCosts ==
    /\ IsProd
    /\ \A t \in 1..Len(self.production_costs) : self.production_costs[t] > 0
    /\ self.storage_cost >= 0
    /\ \A t \in 1..Len(self.demands) : self.demands[t] >= 0

\* C29: with positive production costs, storage cost >= 0 and demands >= 0,
\* every optimal point of the model has final inventory 0 and total
\* production equal to total demand, and so has every Optimal result,
\* although points with a positive final inventory are feasible.
C29_OptimalFinalInventoryZero ==
    (PositiveCosts /\ CallReturned /\ 2 * self.num_periods <= MaxVars
       /\ InBounds(self.model)) =>
        LET n == self.num_periods
            m == self.model
        IN  /\ \A x \in OptimalPoints(m) :
                  /\ x[2 * n] = 0
                  /\ SumSeq([t \in 1..n |-> x[t]]) = SumSeq(self.demands)
            /\ (last = "solve" /\ self.solution.status = "Optimal") =>
                  /\ self.solution.inventory_schedule[n] = 0
                  /\ SumSeq(self.solution.production_schedule)
                        = SumSeq(self.demands)

\* A model with no storage cost is solved: stock carried between periods is
\* free, a positive final inventory is feasible, and the Optimal result
\* still ends with none.
C29_Witness ==
    /\ PositiveCosts /\ self.storage_cost = 0 /\ self.num_periods >= 2
    /\ last = "solve" /\ raised = ""
    /\ self.solution.status = "Optimal"
    /\ self.solution.inventory_schedule[1] > 0
    /\ self.solution.inventory_schedule[self.num_periods] = 0
    /\ \E x \in Points[2 * self.num_periods] :
            Feasible(self.model, x) /\ x[2 * self.num_periods] > 0

\* C30: for constraint_type '<=', '>=' or '==' and tolerance >= 0,
\* calculate_constraint_violations returns a violation that is >= 0 and is
\* 0 exactly when the constraint holds with no tolerance, and satisfied is
\* True exactly when the violation is at most the tolerance; for any other
\* constraint_type it raises ValueError and returns nothing.
C30_ViolationAndSatisfiedAgree ==
    last = "calculate_constraint_violations" =>
        LET a   == given.actual_value
            r   == given.required_value
            c   == given.constraint_type
            tol == given.tolerance
        IN  IF c \in {"<=", ">=", "=="}
            THEN /\ raised = ""
                 /\ returned.violation >= 0
                 /\ returned.violation = 0 <=>
                        CASE c = "<=" -> a <= r
                          [] c = ">=" -> a >= r
                          [] c = "==" -> a = r
                 /\ returned.satisfied <=> returned.violation <= tol
            ELSE /\ raised = "ValueError"
                 /\ returned = NoneVal

====
